---- MODULE Spec2Model ----
(***************************************************************************)
(* duplicate-file-finder: Runner::from_args (src/lib.rs).                  *)
(*                                                                         *)
(* from_args checks the arity of the argument list, builds root_dir from   *)
(* args[1], asks the filesystem for the metadata of root_dir and matches   *)
(* on the answer.  The only access to shared state is the one metadata     *)
(* query, so a call is modelled as three steps: the local prefix up to the *)
(* query (Enter), the query (Metadata) and the match on its answer         *)
(* (Match).  Two call sites run concurrently with each other and with      *)
(* other processes that create, delete and replace filesystem entries.     *)
(* Sequences are 1-based: Rust's args[0], args[1] are args[1], args[2].    *)
(***************************************************************************)
EXTENDS Integers, Sequences, FiniteSets, TLC

\* ---------------------------------------------------------------- bounds
\* longest argument list a call is given
MaxArgs == 3

\* ------------------------------------------------------------ environment
\* the two call sites whose calls are compared
Calls == {1, 2}

\* the text tokens an argument may be: "d/" names entry d with a trailing
\* separator, "e" names entry e
Strings == {"d/", "e"}

\* the filesystem entries the tokens name
Entries == {"d", "e"}

\* what an entry can be: nothing, an entry that cannot be reached
\* (permission denied on the way to it), or an entry of some file type
Kinds == {"absent", "denied", "file", "special", "dir"}

ArgLists == UNION {[1..n -> Strings] : n \in 0..MaxArgs}

\* --------------------------------------------------------------- the types
\* FromArgsError
InsufficientArguments == "InsufficientArguments"
TooManyArguments == "TooManyArguments"
InvalidFilePath == "InvalidFilePath"
NotADirectory == "NotADirectory"

FromArgsError == {InsufficientArguments, TooManyArguments, InvalidFilePath, NotADirectory}

\* Result<Runner, FromArgsError>
Err(e) == [tag |-> "Err", err |-> e]
Ok(r) == [tag |-> "Ok", runner |-> r]

\* struct Runner { root_dir: PathBuf }
Runner(p) == [root_dir |-> p]

\* a call that has not returned; Panicked is the index-out-of-bounds panic of args[1]
Pending == [tag |-> "Pending"]
Panicked == [tag |-> "Panic"]

\* PathBuf: an owned path holding the bytes it was built from
PathBuf(s) == [inner |-> s]
NoPath == [inner |-> ""]

\* io::Result<Metadata>
MetaErr == [tag |-> "Err"]
MetaOk(k) == [tag |-> "Ok", file_type |-> k]
NoMeta == [tag |-> "None"]

VARIABLES
    fs,        \* the filesystem: the kind of every entry
    pc,        \* where each call is: "idle", "metadata", "match", "done"
    args,      \* the argument list each call was given
    root_dir,  \* the local root_dir of each call
    meta,      \* the answer of root_dir.metadata() each call holds
    syscalls,  \* the filesystem operations each call has issued, in order
    queried,   \* history: the kind of the entry root_dir named at the instant of the query
    result     \* what each call returned

vars == <<fs, pc, args, root_dir, meta, syscalls, queried, result>>

\* ------------------------------------------------------- path resolution
\* the entry a path names
EntryOf(s) == IF s = "e" THEN "e" ELSE "d"

\* a path ending in a separator resolves only if the entry is a directory
RequiresDir(s) == s = "d/"

\* fs::metadata(path): Err when the entry is missing, unreachable, or a
\* non-directory named with a trailing separator; else its metadata
Metadata(f, p) ==
    LET k == f[EntryOf(p.inner)]
    IN  IF k \in {"absent", "denied"} \/ (RequiresDir(p.inner) /\ k # "dir")
        THEN MetaErr
        ELSE MetaOk(k)

\* a call that asks exists() before metadata(): two queries
MetadataSyscallsTwice(p) == <<[op |-> "metadata", path |-> p], [op |-> "metadata", path |-> p]>>

\* the filesystem operations root_dir.metadata() issues
MetadataSyscalls(p) == <<[op |-> "metadata", path |-> p]>>

\* !r.is_file() in place of r.is_dir()
IsDirNotFile(r) == r.file_type # "file"

\* the is_dir test dropped: any entry with metadata passes
IsDirExists(r) == r.tag = "Ok"

\* Metadata::is_dir
IsDir(r) == r.file_type = "dir"

\* -------------------------------------------------------------- from_args
\* args_len < 1
InsufficientOffByOne(args_len) == args_len < 1

\* args_len < 2
Insufficient(args_len) == args_len < 2

\* args_len > 3
TooManyOffByOne(args_len) == args_len > 3

\* args_len > 2
TooMany(args_len) == args_len > 2

\* the path with its trailing separator removed
StripSeparator(s) == IF s = "d/" THEN "d" ELSE s

\* root_dir normalised before it is stored
RootDirNormalised(a) == PathBuf(StripSeparator(a[2]))

\* root_dir taken from args[0]
RootDirOfBinary(a) == PathBuf(a[1])

\* Path::new(&args[1]).to_owned()
RootDirOf(a) == PathBuf(a[2])

\* the two error arms exchanged
MatchSwappedErrors(r, p) ==
    IF r = MetaErr
    THEN Err(NotADirectory)
    ELSE IF IsDir(r)
         THEN Ok(Runner(p))
         ELSE Err(InvalidFilePath)

\* the early return of the directory arm lost
MatchNoReturn(r, p) ==
    IF r = MetaErr
    THEN Err(InvalidFilePath)
    ELSE Err(NotADirectory)

\* a retained singleton: only the first Runner is handed out
MatchSingleton(r, p) ==
    IF r = MetaErr
    THEN Err(InvalidFilePath)
    ELSE IF IsDir(r) /\ \A c \in Calls : result[c].tag # "Ok"
         THEN Ok(Runner(p))
         ELSE Err(NotADirectory)

\* the match on root_dir.metadata()
MatchMetadata(r, p) ==
    IF r = MetaErr
    THEN Err(InvalidFilePath)
    ELSE IF IsDir(r)
         THEN Ok(Runner(p))
         ELSE Err(NotADirectory)

\* from_args up to the metadata query: the arity checks and root_dir
FromArgsEnter(c, a) ==
    /\ pc[c] = "idle"
    /\ args' = [args EXCEPT ![c] = a]
    /\ IF Insufficient(Len(a))
       THEN /\ result' = [result EXCEPT ![c] = Err(InsufficientArguments)]
            /\ pc' = [pc EXCEPT ![c] = "done"]
            /\ UNCHANGED root_dir
       ELSE IF TooMany(Len(a))
       THEN /\ result' = [result EXCEPT ![c] = Err(TooManyArguments)]
            /\ pc' = [pc EXCEPT ![c] = "done"]
            /\ UNCHANGED root_dir
       ELSE IF Len(a) < 2
       THEN /\ result' = [result EXCEPT ![c] = Panicked]
            /\ pc' = [pc EXCEPT ![c] = "done"]
            /\ UNCHANGED root_dir
       ELSE /\ root_dir' = [root_dir EXCEPT ![c] = RootDirOf(a)]
            /\ pc' = [pc EXCEPT ![c] = "metadata"]
            /\ UNCHANGED result
    /\ UNCHANGED <<fs, meta, syscalls, queried>>

\* root_dir.metadata(): the one filesystem query
FromArgsMetadata(c) ==
    /\ pc[c] = "metadata"
    /\ meta' = [meta EXCEPT ![c] = Metadata(fs, root_dir[c])]
    /\ syscalls' = [syscalls EXCEPT ![c] = @ \o MetadataSyscalls(root_dir[c])]
    /\ queried' = [queried EXCEPT ![c] = fs[EntryOf(root_dir[c].inner)]]
    /\ pc' = [pc EXCEPT ![c] = "match"]
    /\ UNCHANGED <<fs, args, root_dir, result>>

\* the match arms: the call returns
FromArgsMatch(c) ==
    /\ pc[c] = "match"
    /\ result' = [result EXCEPT ![c] = MatchMetadata(meta[c], root_dir[c])]
    /\ pc' = [pc EXCEPT ![c] = "done"]
    /\ UNCHANGED <<fs, args, root_dir, meta, syscalls, queried>>

\* ------------------------------------------- other processes on the filesystem
FsCreate(e, k) ==
    /\ fs[e] = "absent"
    /\ k # "absent"
    /\ fs' = [fs EXCEPT ![e] = k]
    /\ UNCHANGED <<pc, args, root_dir, meta, syscalls, queried, result>>

FsDelete(e) ==
    /\ fs[e] # "absent"
    /\ fs' = [fs EXCEPT ![e] = "absent"]
    /\ UNCHANGED <<pc, args, root_dir, meta, syscalls, queried, result>>

FsReplace(e, k) ==
    /\ fs[e] # "absent"
    /\ k # "absent"
    /\ k # fs[e]
    /\ fs' = [fs EXCEPT ![e] = k]
    /\ UNCHANGED <<pc, args, root_dir, meta, syscalls, queried, result>>

\* ---------------------------------------------------------- specifications
Init ==
    /\ fs \in [Entries -> Kinds]
    /\ pc = [c \in Calls |-> "idle"]
    /\ args = [c \in Calls |-> <<>>]
    /\ root_dir = [c \in Calls |-> NoPath]
    /\ meta = [c \in Calls |-> NoMeta]
    /\ syscalls = [c \in Calls |-> <<>>]
    /\ queried = [c \in Calls |-> "none"]
    /\ result = [c \in Calls |-> Pending]

Enter == \E c \in Calls, a \in ArgLists : FromArgsEnter(c, a)
Query == \E c \in Calls : FromArgsMetadata(c)
Match == \E c \in Calls : FromArgsMatch(c)
Create == \E e \in Entries, k \in Kinds : FsCreate(e, k)
Delete == \E e \in Entries : FsDelete(e)
Replace == \E e \in Entries, k \in Kinds : FsReplace(e, k)

FromArgsStep == Enter \/ Query \/ Match

Next == Enter \/ Query \/ Match \/ Create \/ Delete \/ Replace

\* calls running against a filesystem other processes mutate
Spec == Init /\ [][Next]_vars

\* calls running against a filesystem nobody changes
NextQuiet == Enter \/ Query \/ Match

SpecQuiet == Init /\ [][NextQuiet]_vars

\* ------------------------------------------------------------------ claims
Done(c) == pc[c] = "done"

\* the kind of the entry a token names now
KindNow(s) == fs[EntryOf(s)]

\* C1: a call given 0 or 1 arguments returns Err(InsufficientArguments),
\* whatever the argument is and whatever the filesystem holds
C1_InsufficientArguments ==
    \A c \in Calls :
        (Done(c) /\ Len(args[c]) <= 1) => result[c] = Err(InsufficientArguments)

\* a call given only a token that names a directory has returned, and so has
\* a call given nothing
C1_Witness ==
    \E c, d \in Calls :
        /\ Done(c) /\ Len(args[c]) = 1 /\ KindNow(args[c][1]) = "dir"
        /\ Done(d) /\ Len(args[d]) = 0

\* C2: a call given 3 or more arguments returns Err(TooManyArguments), whatever
\* args[1] names: nothing, a file or a directory
C2_TooManyArguments ==
    \A c \in Calls :
        (Done(c) /\ Len(args[c]) >= 3) => result[c] = Err(TooManyArguments)

\* calls given three arguments have returned, one whose args[1] names a
\* directory and one whose args[1] names nothing
C2_Witness ==
    \E c, d \in Calls :
        /\ Done(c) /\ Len(args[c]) = 3 /\ KindNow(args[c][2]) = "dir"
        /\ Done(d) /\ Len(args[d]) = 3 /\ KindNow(args[d][2]) = "absent"

\* C3: a call given 2 arguments whose metadata query failed returns
\* Err(InvalidFilePath), never NotADirectory and never a Runner
C3_InvalidFilePath ==
    \A c \in Calls :
        (Done(c) /\ Len(args[c]) = 2 /\ meta[c] = MetaErr)
            => result[c] = Err(InvalidFilePath)

\* one call found the path missing and another found it unreachable
C3_Witness ==
    \E c, d \in Calls :
        /\ Done(c) /\ Len(args[c]) = 2 /\ meta[c] = MetaErr /\ queried[c] = "absent"
        /\ Done(d) /\ Len(args[d]) = 2 /\ meta[d] = MetaErr /\ queried[d] = "denied"

\* C4: a call given 2 arguments whose metadata query answered with an entry
\* that is not a directory returns Err(NotADirectory)
C4_NotADirectory ==
    \A c \in Calls :
        (Done(c) /\ Len(args[c]) = 2 /\ meta[c].tag = "Ok" /\ meta[c].file_type # "dir")
            => result[c] = Err(NotADirectory)

\* one call found a regular file and another a special file
C4_Witness ==
    \E c, d \in Calls :
        /\ Done(c) /\ Len(args[c]) = 2 /\ meta[c] = MetaOk("file")
        /\ Done(d) /\ Len(args[d]) = 2 /\ meta[d] = MetaOk("special")

\* C5: a call given 2 arguments whose args[1] named a directory when queried
\* returns Ok(Runner) and root_dir holds args[1] exactly as given
C5_OkVerbatim ==
    \A c \in Calls :
        (Done(c) /\ Len(args[c]) = 2 /\ queried[c] = "dir")
            => /\ result[c].tag = "Ok"
               /\ result[c].runner.root_dir.inner = args[c][2]

\* a Runner was built from a path with a trailing separator, given after a
\* different args[0]
C5_Witness ==
    \E c \in Calls :
        /\ Done(c) /\ result[c].tag = "Ok"
        /\ args[c] = <<"e", "d/">>

\* the outcome the ordered decision procedure selects for an argument list and
\* the kind of the entry args[1] named when it was queried
Decision(a, k) ==
    IF Len(a) < 2 THEN Err(InsufficientArguments)
    ELSE IF Len(a) > 2 THEN Err(TooManyArguments)
    ELSE IF k \in {"absent", "denied"} \/ (RequiresDir(a[2]) /\ k # "dir")
         THEN Err(InvalidFilePath)
    ELSE IF k # "dir" THEN Err(NotADirectory)
    ELSE Ok(Runner(PathBuf(a[2])))

Outcomes == {Err(e) : e \in FromArgsError} \cup {Ok(Runner(PathBuf(s))) : s \in Strings}

\* C6: from_args is total and returns exactly one of Ok(Runner) and the four
\* errors, the one the first matching rule selects: a call under way can always
\* take its next step, and a call that returned holds that outcome
C6_TotalExclusive ==
    \A c \in Calls :
        /\ pc[c] = "idle" => \A a \in ArgLists : ENABLED FromArgsEnter(c, a)
        /\ pc[c] = "metadata" => ENABLED FromArgsMetadata(c)
        /\ pc[c] = "match" => ENABLED FromArgsMatch(c)
        /\ Done(c) => /\ result[c] \in Outcomes
                      /\ result[c] = Decision(args[c], queried[c])
        /\ ~Done(c) => result[c] = Pending

\* one call returned a Runner and the other an error of the path checks
C6_Witness ==
    \E c, d \in Calls :
        /\ Done(c) /\ result[c].tag = "Ok"
        /\ Done(d) /\ result[d] = Err(NotADirectory)

\* C7: a Runner exists only if the path it holds named a directory at the
\* instant of the call's one metadata query, whatever other processes did to
\* the filesystem before and after
C7_DirectoryWhenQueried ==
    \A c \in Calls :
        result[c].tag = "Ok"
            => /\ queried[c] = "dir"
               /\ meta[c] = MetaOk("dir")
               /\ syscalls[c] = <<[op |-> "metadata", path |-> result[c].runner.root_dir]>>

\* a Runner exists whose directory has since been replaced by a file
C7_Witness ==
    \E c \in Calls :
        /\ result[c].tag = "Ok"
        /\ KindNow(result[c].runner.root_dir.inner) = "file"

\* C8: two calls given the same argument list against an unchanged
\* filesystem return equal results
C8_Idempotent ==
    \A c, d \in Calls :
        (Done(c) /\ Done(d) /\ args[c] = args[d]) => result[c] = result[d]

\* both calls were given the same two arguments and returned a Runner
C8_Witness ==
    /\ \A c \in Calls : Done(c) /\ result[c].tag = "Ok"
    /\ args[1] = args[2]

\* C9 as stated: every call that returned has issued exactly one metadata query
C9_ExactlyOneQuery ==
    \A c \in Calls : Done(c) => Len(syscalls[c]) = 1

\* what a call has asked of the filesystem: nothing, or the metadata of root_dir
C9_QueryLog ==
    \A c \in Calls :
        /\ syscalls[c] \in {<<>>, <<[op |-> "metadata", path |-> root_dir[c]]>>}
        /\ Done(c) => (Len(syscalls[c]) = 1 <=> Len(args[c]) = 2)

\* C9: a call issues at most one filesystem operation, a metadata query of
\* root_dir (exactly one when it is given 2 arguments, none when the arity
\* check fails), and no step of a call changes the filesystem
C9_AtMostOneQueryNoWrite ==
    /\ []C9_QueryLog
    /\ [][FromArgsStep => fs' = fs]_vars

\* a call that failed its arity check asked nothing, and a call that returned
\* a Runner asked once
C9_Witness ==
    \E c, d \in Calls :
        /\ Done(c) /\ result[c] = Err(TooManyArguments) /\ syscalls[c] = <<>>
        /\ Done(d) /\ result[d].tag = "Ok" /\ Len(syscalls[d]) = 1

\* two argument lists of the same length that differ in args[0] and nowhere else
DifferOnlyInBinary(a, b) ==
    /\ Len(a) = Len(b)
    /\ Len(a) >= 1
    /\ a[1] # b[1]
    /\ \A i \in 2..Len(a) : a[i] = b[i]

\* C10: two calls whose argument lists differ only in args[0], against the
\* same filesystem, return equal results
C10_BinaryIgnored ==
    \A c, d \in Calls :
        (Done(c) /\ Done(d) /\ DifferOnlyInBinary(args[c], args[d]))
            => result[c] = result[d]

\* both calls reached the path checks with different args[0], one of which
\* names a directory and the other nothing
C10_Witness ==
    /\ \A c \in Calls : Done(c) /\ Len(args[c]) = 2
    /\ DifferOnlyInBinary(args[1], args[2])
    /\ KindNow(args[1][1]) = "dir"
    /\ KindNow(args[2][1]) = "absent"

====
